---- MODULE Spec2Model ----
(***************************************************************************)
(* keyword-bingo: the card generator of src/bingo/bingo.py.                *)
(*                                                                         *)
(* Two parts of the program are modelled.                                  *)
(*  - bingo(): one generation request, step by step (validate, seed the    *)
(*    process-wide random stream, read the word file, draw one rank per    *)
(*    word, sort, check the word count, reshape, render, save/show).  The  *)
(*    requests run in request slots; Spec runs them one after another,     *)
(*    SpecConc lets the steps of two requests interleave.                  *)
(*  - text_box(): the font-shrink loop with wrap_text, under SpecText.     *)
(***************************************************************************)
EXTENDS Integers, Sequences, FiniteSets

VARIABLES
    file,   \* the lines of the word file on disk
    rng,    \* state of the process-wide generator of the random module
    th,     \* per request slot: the locals of one call of bingo()
    tb      \* the locals of one call of text_box()

vars == <<file, rng, th, tb>>

----------------------------------------------------------------------------
(* Bounds of the model *)

MaxWords == 6      \* longest word file
NumKinds == 4      \* distinct words a file draws its lines from
MaxDim == 3        \* largest rows / cols requested
NumSeeds == 2      \* distinct explicit seeds
RngMod == 16       \* number of states of the random stream
MaxConcWords == 4  \* longest word file of the interleaved runs
MaxConcDim == 2    \* largest rows / cols of the interleaved runs
MaxTextLen == 5    \* longest text handed to text_box
MaxSize == 5       \* largest box size
MaxPadding == 1    \* largest padding
MaxFont == 3       \* largest starting font size

(* Program constants *)

SIZE == 200
PADDING == 5
FOOTER_FONT == 12

Threads == {1, 2}
Dims == (0 - 1)..MaxDim
Seeds == 1..NumSeeds
NoSeed == 0
RngStates == 0..(RngMod - 1)

----------------------------------------------------------------------------
(* The random module: random.seed(seed) and random.random() *)

SeedState(seed) == (7 * seed + 3) % RngMod

SeedKeep(state, seed) == state

RandomSeed(state, seed) == SeedState(seed)

\* random.random(): the stream advances, the new state is the value drawn
RandomNext(state) == (5 * state + 3) % RngMod

----------------------------------------------------------------------------
(* The word file *)

WordAt(k) == ((k - 1) % NumKinds) + 1

WordFiles == { [k \in 1..n |-> WordAt(k)] : n \in 0..MaxWords }

RECURSIVE Checksum(_, _)
Checksum(ws, k) ==
    IF k = 0 THEN 1 ELSE (31 * Checksum(ws, k - 1) + ws[k]) % 251

\* read_words: the lines of the file and the digest of its bytes
Md5(ws) == Checksum(ws, Len(ws))

----------------------------------------------------------------------------
(* Pure helpers of bingo() and _bingo() *)

\* sorted(words, key=...): the keys are computed first, the sort is stable
SortedByKey(ws, ks) ==
    LET n == Len(ws)
        Before(j, k) == ks[j] < ks[k] \/ (ks[j] = ks[k] /\ j < k)
        Place(k) == Cardinality({ j \in 1..n : Before(j, k) }) + 1
    IN  [p \in 1..n |-> ws[CHOOSE k \in 1..n : Place(k) = p]]

PrefixLast(ws, n) ==
    SubSeq(ws, (IF Len(ws) < n THEN 0 ELSE Len(ws) - n) + 1, Len(ws))

\* words[:cols*rows]
Prefix(ws, n) == SubSeq(ws, 1, IF Len(ws) < n THEN Len(ws) ELSE n)

\* indices (i, j) of the tile loop: i over the columns, j over the rows
Cells(rows, cols) == (0..(cols - 1)) \X (0..(rows - 1))

InvalidSizeBoth(rows, cols) == rows < 1 /\ cols < 1

\* if rows < 1 or cols < 1
InvalidSize(rows, cols) == rows < 1 \/ cols < 1

NotEnoughOffByOne(n, rows, cols) == n < cols * rows - 1

\* if len(words) < cols * rows
NotEnough(n, rows, cols) == n < cols * rows

ReshapeRowMajor(ws, rows, cols) ==
    [c \in Cells(rows, cols) |-> ws[c[2] * cols + c[1] + 1]]

\* np.array(...).reshape((cols, rows)): grid[i, j] is entry i*rows + j
Reshape(ws, rows, cols) ==
    [c \in Cells(rows, cols) |-> ws[c[1] * rows + c[2] + 1]]

CenterSwapped(rows, cols) == <<rows \div 2, cols \div 2>>

\* (cols // 2, rows // 2)
Center(rows, cols) == <<cols \div 2, rows \div 2>>

StarTile == [kind |-> "star", text |-> 0]
TextTile(word) == [kind |-> "text", text |-> word]

\* image.paste(box, (i * size, j * size))
PasteAt(c, size) == <<c[1] * size, c[2] * size>>

\* text_size of the footer line at the footer font: its height
FooterHeight == FOOTER_FONT

NoFooter == [drawn |-> FALSE, xy |-> <<0, 0>>, seed |-> NoSeed, hash |-> 0]
NoImage == [size |-> <<0, 0>>, pasted |-> <<>>, footer |-> NoFooter]

\* _bingo: the canvas, one tile pasted per cell, then the footer line
Render(rows, cols, grid, seed, hash, size, padding) ==
    [size |-> <<cols * size, rows * size>>,
     pasted |-> [xy \in { PasteAt(c, size) : c \in Cells(rows, cols) } |->
                   LET c == CHOOSE d \in Cells(rows, cols) : PasteAt(d, size) = xy
                   IN  IF c = Center(rows, cols) THEN StarTile
                                                 ELSE TextTile(grid[c])],
     footer |-> [drawn |-> TRUE,
                 xy |-> <<padding,
                          rows * size - padding - ((3 * FooterHeight) \div 2)>>,
                 seed |-> seed, hash |-> hash]]

----------------------------------------------------------------------------
(* bingo(input, output, rows, cols, seed), one call per request slot *)

Fresh ==
    [pc |-> "idle", rows |-> 0, cols |-> 0, seed |-> NoSeed, output |-> FALSE,
     words |-> <<>>, keys |-> <<>>, hash |-> 0, grid |-> <<>>,
     image |-> NoImage, err |-> "", effects |-> {}]

Running(t) == th[t].pc \notin {"idle", "returned", "raised"}

Quiescent == \A t \in Threads : ~Running(t)

Raise(r, e) == [r EXCEPT !.pc = "raised", !.err = e]

\* the call binds the arguments; lines 204-205 validate the size
Call(t, rows, cols, seed, output) ==
    /\ ~Running(t)
    /\ LET r == [Fresh EXCEPT !.rows = rows, !.cols = cols, !.seed = seed,
                              !.output = output]
       IN  th' = [th EXCEPT ![t] =
                    IF InvalidSize(rows, cols)
                    THEN Raise(r, "InvalidSize")
                    ELSE [r EXCEPT !.pc = "seed"]]
    /\ UNCHANGED <<file, rng, tb>>

\* lines 208-210: a falsy seed is replaced by the clock, then random.seed
Seed(t) ==
    /\ th[t].pc = "seed"
    /\ \E now \in Seeds :
         LET s == IF th[t].seed = NoSeed THEN now ELSE th[t].seed
         IN  /\ rng' = RandomSeed(rng, s)
             /\ th' = [th EXCEPT ![t] =
                         [th[t] EXCEPT !.pc = "read", !.seed = s,
                                       !.effects = @ \cup {"seed"}]]
    /\ UNCHANGED <<file, tb>>

\* line 213
Read(t) ==
    /\ th[t].pc = "read"
    /\ th' = [th EXCEPT ![t] =
                [th[t] EXCEPT !.pc = "draw", !.words = file, !.hash = Md5(file),
                              !.effects = @ \cup {"read"}]]
    /\ UNCHANGED <<file, rng, tb>>

\* line 214, the key function: one random.random() per word
Draw(t) ==
    /\ th[t].pc = "draw"
    /\ Len(th[t].keys) < Len(th[t].words)
    /\ rng' = RandomNext(rng)
    /\ th' = [th EXCEPT ![t] = [th[t] EXCEPT !.keys = Append(@, RandomNext(rng))]]
    /\ UNCHANGED <<file, tb>>

\* line 214, the sort once every key is drawn
Sort(t) ==
    /\ th[t].pc = "draw"
    /\ Len(th[t].keys) = Len(th[t].words)
    /\ th' = [th EXCEPT ![t] =
                [th[t] EXCEPT !.pc = "check",
                              !.words = SortedByKey(th[t].words, th[t].keys)]]
    /\ UNCHANGED <<file, rng, tb>>

\* lines 217-218
Check(t) ==
    /\ th[t].pc = "check"
    /\ th' = [th EXCEPT ![t] =
                IF NotEnough(Len(th[t].words), th[t].rows, th[t].cols)
                THEN Raise(th[t], "NotEnoughWords")
                ELSE [th[t] EXCEPT !.pc = "reshape"]]
    /\ UNCHANGED <<file, rng, tb>>

\* line 221: numpy refuses a reshape of the wrong number of entries
Fill(t) ==
    /\ th[t].pc = "reshape"
    /\ LET r == th[t]
           first == Prefix(r.words, r.cols * r.rows)
       IN  th' = [th EXCEPT ![t] =
                    IF Len(first) # r.cols * r.rows
                    THEN Raise(r, "ValueError")
                    ELSE [r EXCEPT !.pc = "render",
                                   !.grid = Reshape(first, r.rows, r.cols),
                                   !.effects = @ \cup {"grid"}]]
    /\ UNCHANGED <<file, rng, tb>>

\* line 224
Compose(t) ==
    /\ th[t].pc = "render"
    /\ LET r == th[t]
       IN  th' = [th EXCEPT ![t] =
                    [r EXCEPT !.pc = "output",
                              !.image = Render(r.rows, r.cols, r.grid, r.seed,
                                               r.hash, SIZE, PADDING),
                              !.effects = @ \cup {"tiles"}]]
    /\ UNCHANGED <<file, rng, tb>>

\* lines 227-231
Finish(t) ==
    /\ th[t].pc = "output"
    /\ th' = [th EXCEPT ![t] =
                [th[t] EXCEPT !.pc = "returned",
                              !.effects = @ \cup (IF th[t].output
                                                  THEN {"save", "show"}
                                                  ELSE {"show"})]]
    /\ UNCHANGED <<file, rng, tb>>

Step(t) ==
    \/ Seed(t)
    \/ Read(t)
    \/ Draw(t)
    \/ Sort(t)
    \/ Check(t)
    \/ Fill(t)
    \/ Compose(t)
    \/ Finish(t)

TextIdle ==
    [pc |-> "idle", size |-> 0, padding |-> 0, text |-> <<>>, start |-> 0,
     font |-> 0, wrapped |-> <<>>, drawn |-> <<>>, err |-> ""]

Init ==
    /\ file \in WordFiles
    /\ rng \in RngStates
    /\ th = [t \in Threads |-> Fresh]
    /\ tb = TextIdle

\* one request after another, every argument of the call free
CallOne ==
    \E rows \in Dims, cols \in Dims, seed \in Seeds \cup {NoSeed},
       output \in BOOLEAN :
        Call(1, rows, cols, seed, output)

Next == CallOne \/ Step(1)

Spec == Init /\ [][Next]_vars

\* one process serving requests one at a time; each slot keeps the last
\* request it served, so that two requests can be compared
CallSeq ==
    \E t \in Threads, rows \in 1..MaxDim, cols \in 1..MaxDim,
       seed \in Seeds \cup {NoSeed} :
        Quiescent /\ Call(t, rows, cols, seed, FALSE)

NextSeq == CallSeq \/ \E t \in Threads : Step(t)

SpecSeq == Init /\ [][NextSeq]_vars

\* two requests with explicit seeds whose steps interleave
CallConc ==
    \E t \in Threads, rows \in 1..MaxConcDim, cols \in 1..MaxConcDim,
       seed \in Seeds :
        th[t].pc = "idle" /\ Call(t, rows, cols, seed, FALSE)

NextConc == CallConc \/ \E t \in Threads : Step(t)

InitConc == Init /\ Len(file) <= MaxConcWords

SpecConc == InitConc /\ [][NextConc]_vars

----------------------------------------------------------------------------
(* text_box(size, padding, text, font_size, font_path) *)

Chars == {"a", "b", " ", "\n"}

Texts == UNION { [1..n -> Chars] : n \in 0..MaxTextLen }

\* text_size: the box of a line is one glyph cell of font x font pixels per
\* character; an empty line has an empty box
TextSize(line, font) ==
    <<Len(line) * font, IF Len(line) = 0 THEN 0 ELSE font>>

\* text.split('\n')
RECURSIVE SplitLines(_)
SplitLines(text) ==
    IF \A k \in 1..Len(text) : text[k] # "\n"
    THEN <<text>>
    ELSE LET k == CHOOSE i \in 1..Len(text) :
                     text[i] = "\n" /\ \A j \in 1..(i - 1) : text[j] # "\n"
         IN  <<SubSeq(text, 1, k - 1)>>
                 \o SplitLines(SubSeq(text, k + 1, Len(text)))

\* line.split(): the runs of non-blank characters
RECURSIVE SplitWords(_)
SplitWords(line) ==
    IF \A k \in 1..Len(line) : line[k] = " "
    THEN <<>>
    ELSE LET b == CHOOSE i \in 1..Len(line) :
                     line[i] # " " /\ \A j \in 1..(i - 1) : line[j] = " "
             e == CHOOSE i \in b..Len(line) :
                     /\ \A j \in b..i : line[j] # " "
                     /\ (i = Len(line) \/ line[i + 1] = " ")
         IN  <<SubSeq(line, b, e)>> \o SplitWords(SubSeq(line, e + 1, Len(line)))

\* ' '.join(words)
RECURSIVE Join(_)
Join(words) ==
    IF Len(words) = 0 THEN <<>>
    ELSE IF Len(words) = 1 THEN words[1]
    ELSE words[1] \o <<" ">> \o Join(Tail(words))

\* the loop over the words of one segment, from word k on (lines 74-82)
RECURSIVE WrapWords(_, _, _, _, _, _)
WrapWords(words, k, current, lines, font, max_width) ==
    IF k > Len(words)
    THEN Append(lines, Join(current))
    ELSE IF TextSize(Join(Append(current, words[k])), font)[1] <= max_width
         THEN WrapWords(words, k + 1, Append(current, words[k]), lines,
                        font, max_width)
         ELSE WrapWords(words, k + 1, <<words[k]>>,
                        Append(lines, Join(current)), font, max_width)

\* the loop over the segments (lines 70-83)
RECURSIVE WrapSegments(_, _, _, _)
WrapSegments(segs, lines, font, max_width) ==
    IF Len(segs) = 0
    THEN lines
    ELSE WrapSegments(Tail(segs),
                      WrapWords(SplitWords(Head(segs)), 1, <<>>, lines,
                                font, max_width),
                      font, max_width)

wrap_text(text, font, max_width) ==
    WrapSegments(SplitLines(text), <<>>, font, max_width)

\* sum([text_size(draw, line, font)[1] for line in wrapped_text])
RECURSIVE TextHeight(_, _)
TextHeight(lines, font) ==
    IF Len(lines) = 0 THEN 0
    ELSE TextSize(Head(lines), font)[2] + TextHeight(Tail(lines), font)

FitsOnePadding(height, size, padding) == height <= size - padding

\* if text_height <= (size - 2 * padding)
Fits(height, size, padding) == height <= size - 2 * padding

\* ImageFont.truetype refuses a font size that is not positive
FontLoads(font_size) == font_size > 0

Max(a, b) == IF a < b THEN b ELSE a

\* lines 99-107: where each line is drawn, from line k on
RECURSIVE DrawLines(_, _, _, _, _, _)
DrawLines(lines, k, y, font, size, padding) ==
    IF k > Len(lines)
    THEN <<>>
    ELSE LET wh == TextSize(lines[k], font)
             x == Max((size - wh[1]) \div 2, padding)
         IN  <<[x |-> x, y |-> y, line |-> lines[k]]>>
                 \o DrawLines(lines, k + 1, y + wh[2], font, size, padding)

\* lines 61-66: the canvas and the starting font (one call per behaviour:
\* text_box keeps nothing from one call to the next)
TextBoxCall ==
    /\ tb.pc = "idle"
    /\ \E size \in 0..MaxSize, padding \in 0..MaxPadding, text \in Texts,
          font_size \in 1..MaxFont :
         tb' = [TextIdle EXCEPT !.size = size, !.padding = padding,
                                !.text = text, !.start = font_size,
                                !.font = font_size,
                                !.pc = IF FontLoads(font_size) THEN "fit"
                                                               ELSE "raised",
                                !.err = IF FontLoads(font_size) THEN ""
                                                                ELSE "FontSize"]
    /\ UNCHANGED <<file, rng, th>>

\* lines 87-94: one pass of the loop: wrap, measure, break or shrink
TextBoxFit ==
    /\ tb.pc = "fit"
    /\ LET wrapped == wrap_text(tb.text, tb.font, tb.size - 2 * tb.padding)
       IN  tb' = IF Fits(TextHeight(wrapped, tb.font), tb.size, tb.padding)
                 THEN [tb EXCEPT !.wrapped = wrapped, !.pc = "draw"]
                 ELSE [tb EXCEPT !.wrapped = wrapped, !.font = @ - 1,
                                 !.pc = IF FontLoads(tb.font - 1) THEN "fit"
                                                                  ELSE "raised",
                                 !.err = IF FontLoads(tb.font - 1) THEN ""
                                                                   ELSE "FontSize"]
    /\ UNCHANGED <<file, rng, th>>

\* lines 96-112: the lines are drawn, centered, and the image returned
TextBoxDraw ==
    /\ tb.pc = "draw"
    /\ tb' = [tb EXCEPT !.pc = "returned",
                        !.drawn = DrawLines(tb.wrapped, 1,
                                            (tb.size - TextHeight(tb.wrapped, tb.font)) \div 2,
                                            tb.font, tb.size, tb.padding)]
    /\ UNCHANGED <<file, rng, th>>

InitText ==
    /\ file = <<>>
    /\ rng = 0
    /\ th = [t \in Threads |-> Fresh]
    /\ tb = TextIdle

NextText == TextBoxCall \/ TextBoxFit \/ TextBoxDraw

SpecText == InitText /\ [][NextText]_vars

----------------------------------------------------------------------------
(* Claims about bingo() and _bingo() *)

Built(t) == "grid" \in th[t].effects
Composed(t) == "tiles" \in th[t].effects
CellCount(t) == th[t].rows * th[t].cols
CenterOffset(t) == <<(th[t].cols \div 2) * SIZE, (th[t].rows \div 2) * SIZE>>
Pasted(t) == th[t].image.pasted

\* C1: two requests served by the process with the same word list, rows,
\* cols and seed have the same word in every cell of their grids, whatever
\* was served before or between them.
C1_Determinism ==
    \A t, u \in Threads :
        (Built(t) /\ Built(u) /\ th[t].rows = th[u].rows
            /\ th[t].cols = th[u].cols /\ th[t].seed = th[u].seed)
        => th[t].grid = th[u].grid

C1_Witness ==
    /\ th[1].pc = "returned" /\ th[2].pc = "returned"
    /\ th[1].rows = 2 /\ th[1].cols = 2 /\ th[2].rows = 2 /\ th[2].cols = 2
    /\ th[1].seed = th[2].seed
    /\ Cardinality({ th[1].grid[c] : c \in Cells(2, 2) }) > 2
    /\ rng # RandomNext(SeedState(th[1].seed))

\* the keys a request draws when nothing else touches the random stream
RECURSIVE AloneKeys(_, _)
AloneKeys(state, n) ==
    IF n = 0 THEN <<>> ELSE <<RandomNext(state)>> \o AloneKeys(RandomNext(state), n - 1)

\* the grid a request builds when run alone
AloneGrid(ws, rows, cols, seed) ==
    Reshape(Prefix(SortedByKey(ws, AloneKeys(SeedState(seed), Len(ws))),
                   cols * rows), rows, cols)

\* C2: when the steps of two requests interleave, each request still builds
\* the grid it builds when run alone.
C2_Isolation ==
    \A t \in Threads :
        Built(t) => th[t].grid = AloneGrid(file, th[t].rows, th[t].cols, th[t].seed)

\* C3: in a composed card every non-center tile shows one of the first
\* rows*cols entries of the shuffled list, no entry is shown twice, the
\* center tile is the star and no word, and rows*cols - 1 entries are shown.
C3_Coverage ==
    \A t \in Threads :
        Composed(t) =>
            LET n == CellCount(t)
                first == SubSeq(th[t].words, 1, n)
                texts == { xy \in DOMAIN Pasted(t) : Pasted(t)[xy].kind = "text" }
                Shown(w) == Cardinality({ xy \in texts : Pasted(t)[xy].text = w })
                Have(w) == Cardinality({ k \in 1..n : first[k] = w })
            IN  /\ Cardinality(DOMAIN Pasted(t)) = n
                /\ CenterOffset(t) \in DOMAIN Pasted(t)
                /\ Pasted(t)[CenterOffset(t)] = StarTile
                /\ texts = DOMAIN Pasted(t) \ {CenterOffset(t)}
                /\ \A xy \in texts :
                       /\ \E k \in 1..n : Pasted(t)[xy].text = first[k]
                       /\ Shown(Pasted(t)[xy].text) <= Have(Pasted(t)[xy].text)
                /\ Cardinality(texts) = n - 1

C3_Witness ==
    \E t \in Threads :
        /\ th[t].pc = "returned" /\ th[t].rows = 2 /\ th[t].cols = 3
        /\ \E j, k \in 1..CellCount(t) : j # k /\ th[t].words[j] = th[t].words[k]
        /\ th[t].words # file

\* C4: a composed card has exactly one star tile, at column cols // 2 and
\* row rows // 2, and that cell is inside the grid.
C4_OneCenter ==
    \A t \in Threads :
        Composed(t) =>
            /\ 0 <= th[t].cols \div 2 /\ th[t].cols \div 2 < th[t].cols
            /\ 0 <= th[t].rows \div 2 /\ th[t].rows \div 2 < th[t].rows
            /\ { xy \in DOMAIN Pasted(t) : Pasted(t)[xy].kind = "star" }
                   = {CenterOffset(t)}

C4_Witness ==
    \E t \in Threads :
        /\ Composed(t) /\ th[t].rows = 1 /\ th[t].cols = 2
        /\ Pasted(t)[<<SIZE, 0>>].kind = "star"

\* C5: a request with rows < 1 or cols < 1 fails with the invalid-size
\* error whatever the word file holds, and has then neither seeded the
\* random stream, nor read the word file, nor produced an image.
C5_InvalidSize ==
    \A t \in Threads :
        (th[t].pc # "idle" /\ (th[t].rows < 1 \/ th[t].cols < 1)) =>
            /\ th[t].pc = "raised" /\ th[t].err = "InvalidSize"
            /\ th[t].effects = {}
            /\ th[t].words = <<>> /\ th[t].hash = 0
            /\ th[t].image = NoImage

C5_Witness ==
    \E t \in Threads :
        /\ th[t].err = "InvalidSize" /\ th[t].rows = 2 /\ th[t].cols < 0
        /\ Len(file) = 0

\* C6: for rows, cols >= 1 a request on a word file of fewer than rows*cols
\* lines ends with the not-enough-words error and builds no grid, renders
\* no tile and saves or shows no image; a file of at least rows*cols lines
\* (exactly rows*cols included) is never refused.
C6_NotEnough ==
    \A t \in Threads :
        (th[t].pc # "idle" /\ th[t].rows >= 1 /\ th[t].cols >= 1) =>
            /\ Len(file) < CellCount(t) =>
                   /\ th[t].pc \in {"seed", "read", "draw", "check", "raised"}
                   /\ th[t].pc = "raised" => th[t].err = "NotEnoughWords"
                   /\ th[t].effects \subseteq {"seed", "read"}
                   /\ th[t].grid = <<>> /\ th[t].image = NoImage
            /\ Len(file) >= CellCount(t) => th[t].pc # "raised"

C6_Witness ==
    \E t \in Threads :
        /\ th[t].err = "NotEnoughWords" /\ th[t].output
        /\ Len(file) = CellCount(t) - 1 /\ Len(file) >= 1

\* C9: in a composed card the canvas is cols*SIZE by rows*SIZE pixels, the
\* tile at pixel offset (i*SIZE, j*SIZE) of every non-center cell (i, j)
\* shows entry i*rows + j of the shuffled list, and the one entry not shown
\* is the entry (cols // 2)*rows + rows // 2.
C9_ColumnMajor ==
    \A t \in Threads :
        Composed(t) =>
            LET rows == th[t].rows
                cols == th[t].cols
                dropped == (cols \div 2) * rows + rows \div 2
            IN  /\ th[t].image.size = <<cols * SIZE, rows * SIZE>>
                /\ \A i \in 0..(cols - 1), j \in 0..(rows - 1) :
                       /\ <<i * SIZE, j * SIZE>> \in DOMAIN Pasted(t)
                       /\ IF i * rows + j = dropped
                          THEN Pasted(t)[<<i * SIZE, j * SIZE>>].kind = "star"
                          ELSE Pasted(t)[<<i * SIZE, j * SIZE>>]
                                   = TextTile(th[t].words[i * rows + j + 1])

C9_Witness ==
    \E t \in Threads :
        /\ Composed(t) /\ th[t].rows = 2 /\ th[t].cols = 3
        /\ Pasted(t)[<<0, SIZE>>] = TextTile(th[t].words[2])
        /\ Pasted(t)[<<SIZE, 0>>] = TextTile(th[t].words[3])
        /\ th[t].words[2] # th[t].words[3]

----------------------------------------------------------------------------
(* Claims about text_box() and wrap_text() *)

\* C7: whenever text_box has drawn the text, the heights of the wrapped
\* lines at the final font size sum to at most size - 2*padding, and every
\* line is drawn at an x position of at least padding.
C7_Containment ==
    tb.pc = "returned" =>
        /\ TextHeight(tb.wrapped, tb.font) <= tb.size - 2 * tb.padding
        /\ Len(tb.drawn) = Len(tb.wrapped)
        /\ \A k \in 1..Len(tb.drawn) :
               tb.drawn[k].line = tb.wrapped[k] /\ tb.drawn[k].x >= tb.padding

C7_Witness ==
    /\ tb.pc = "returned" /\ tb.font < tb.start /\ tb.padding > 0
    /\ Len(tb.drawn) >= 2
    /\ \E k \in 1..Len(tb.drawn) :
           /\ tb.drawn[k].x = tb.padding
           /\ (tb.size - TextSize(tb.drawn[k].line, tb.font)[1]) \div 2 < tb.padding

\* C8: the font size starts at the given size, goes down by one per pass of
\* the loop, and the loop ends at a font size of at least 1: no font of
\* size 0 or below is ever requested.
C8_FontFloor ==
    tb.pc # "idle" => (tb.font >= 1 /\ tb.font <= tb.start /\ tb.err = "")

\* the font size the lines of tb.wrapped were wrapped at
WrappedAt == IF tb.pc \in {"draw", "returned"} THEN tb.font ELSE tb.font + 1

HasWrapped == tb.pc \in {"draw", "returned"} \/ (tb.pc # "idle" /\ tb.font < tb.start)

RECURSIVE Flatten(_)
Flatten(seqs) == IF Len(seqs) = 0 THEN <<>> ELSE Head(seqs) \o Flatten(Tail(seqs))

\* lines ls are a greedy layout of the words ws of one non-empty segment
GreedyLayout(ws, ls, font, max_width) ==
    LET wl == [i \in 1..Len(ls) |-> SplitWords(ls[i])]
    IN  /\ Len(ls) >= 1
        /\ \A i \in 1..Len(ls) : Len(wl[i]) >= 1 /\ ls[i] = Join(wl[i])
        /\ Flatten(wl) = ws
        /\ \A i \in 1..Len(ls) : \A q \in 2..Len(wl[i]) :
               TextSize(Join(SubSeq(wl[i], 1, q)), font)[1] <= max_width
        /\ \A i \in 2..Len(ls) :
               TextSize(Join(Append(wl[i - 1], wl[i][1])), font)[1] > max_width

\* lines ls are, segment after segment, greedy layouts of the segments
RECURSIVE Layout(_, _, _, _)
Layout(segs, ls, font, max_width) ==
    IF Len(segs) = 0
    THEN Len(ls) = 0
    ELSE LET ws == SplitWords(Head(segs))
         IN  \E k \in 0..Len(ls) :
                 /\ IF Len(ws) = 0
                    THEN \A i \in 1..k : Len(ls[i]) = 0
                    ELSE GreedyLayout(ws, SubSeq(ls, 1, k), font, max_width)
                 /\ Layout(Tail(segs), SubSeq(ls, k + 1, Len(ls)), font, max_width)

\* C10: wrap_text keeps the words of every newline-separated segment in
\* order, none lost or duplicated, breaks the line before a word exactly
\* when appending the word would make the line wider than size - 2*padding,
\* emits only lines of at least one word for a non-empty segment, and every
\* line of more than one word is at most size - 2*padding wide.
C10_GreedyWrap ==
    HasWrapped =>
        Layout(SplitLines(tb.text), tb.wrapped, WrappedAt, tb.size - 2 * tb.padding)

====
